---- MODULE Spec2Model ----
(***************************************************************************)
(* Model of the POD-NN orchestrator (podnn/podnnmodel.py) and of its       *)
(* compiled kernels (podnn/acceleration.py).                               *)
(*                                                                         *)
(* Five specifications share the variables of this module:                 *)
(*   SpecSampler  the Latin-Hypercube sampler, lhs and sample_mu;          *)
(*   Spec         the orchestrator object, its result directory and the    *)
(*                operations generate_dataset .. load;                     *)
(*   SpecUQ       the uncertainty predictions predict_var and              *)
(*                predict_heavy / do_vdot over loop_vdot(_t);              *)
(*   SpecSnap     the snapshot generator create_snapshots over the         *)
(*                parallel loops loop_u / loop_u_t, and restruct;          *)
(*   SpecRed      the parallel reduction of loop_vdot / loop_vdot_t.       *)
(*                                                                         *)
(* The sampler and the dataset work on exact rationals <<p, q>>, q > 0;    *)
(* the uncertainty predictions work on rounded floating-point values.      *)
(***************************************************************************)
EXTENDS Integers, Sequences, FiniteSets, TLC

VARIABLES
    smp,      \* the sampler call: its arguments and its outcome
    obj,      \* the orchestrator object in memory (PodnnModel instance)
    disk,     \* the result directory: the three checkpoints
    ret,      \* outcome of the last orchestrator operation
    vd,       \* the predict_var / do_vdot call: where it stands, its outcome
    snap,     \* the create_snapshots call: its arrays and its parallel loop
    red       \* a loop_vdot / loop_vdot_t call: its parallel reduction

vars == <<smp, obj, disk, ret, vd, snap, red>>

\* Python's None is the empty tuple and a value x that is present is <<x>>, so
\* that the two can always be compared
None == <<>>

Some(x) == <<x>>

Val(x) == x[1]

(***************************************************************************)
(* Generic helpers                                                         *)
(***************************************************************************)
Min(a, b) == IF a <= b THEN a ELSE b

Max(a, b) == IF a >= b THEN a ELSE b

Abs(a) == IF a < 0 THEN 0 - a ELSE a

\* the permutations of 0..n-1, as sequences of length n
Perms(n) == {p \in [1..n -> 0..(n-1)] : \A a, b \in 1..n : p[a] = p[b] => a = b}

RECURSIVE GCD(_, _)
GCD(a, b) == IF b = 0 THEN a ELSE GCD(b, a % b)

(***************************************************************************)
(* Exact rationals <<p, q>>, q > 0, in lowest terms                        *)
(***************************************************************************)
Rat(p, q) ==
    LET s == IF q < 0 THEN 0 - 1 ELSE 1
        g == GCD(Abs(p), Abs(q))
    IN  <<(s * p) \div g, (s * q) \div g>>

RInt(n) == <<n, 1>>

RAdd(x, y) == Rat(x[1] * y[2] + y[1] * x[2], x[2] * y[2])

RSub(x, y) == Rat(x[1] * y[2] - y[1] * x[2], x[2] * y[2])

RMul(x, y) == Rat(x[1] * y[1], x[2] * y[2])

RLe(x, y) == x[1] * y[2] <= y[1] * x[2]

RLt(x, y) == x[1] * y[2] < y[1] * x[2]

\* floor of the rational x
RFloor(x) == x[1] \div x[2]

(***************************************************************************)
(* Arrays: a 1-D array is a sequence, a 2-D array a sequence of rows       *)
(***************************************************************************)
Transpose(M, rows, cols) == [c \in 1..cols |-> [r \in 1..rows |-> M[r][c]]]

\* numpy broadcasting of a 1-D array of length l1 against a last axis of
\* length l2: the lengths agree or one of them is 1
Compatible(l1, l2) == l1 = l2 \/ l1 = 1 \/ l2 = 1

\* entry d of a 1-D array stretched by broadcasting
Bc(x, d) == IF Len(x) = 1 THEN x[1] ELSE x[d]

(***************************************************************************)
(* The sampler: acceleration.lhs and PodnnModel.sample_mu                  *)
(***************************************************************************)
\* resolution of np.random.rand: the draws are r / Res, r in 0..Res-1
Res == 2

\* largest number of samples n_s asked of the sampler
MaxNs == 3

\* the bounding boxes the sampler is called with (mu_min, mu_max)
MuMins == {<<0>>, <<0 - 1>>, <<0 - 1, 0>>}

MuMaxs == {<<2>>, <<1, 2>>, <<1, 2, 3>>}

\* np.random.rand(rows, cols): every matrix of draws in [0, 1)
RandMatrices(rows, cols) == [1..rows -> [1..cols -> 0..(Res - 1)]]

\* np.linspace(0, 1, samples + 1)[k], k = 0..samples
Cut(samples, k) == Rat(k, samples)

\* rdpoints[:, j] = u[:, j]*(b - a) + a, entry k (1-based)
RdPoint(samples, u, k, j) ==
    LET a == Cut(samples, k - 1)
        b == Cut(samples, k)
    IN  RAdd(RMul(Rat(u[k][j], Res), RSub(b, a)), a)

\* lhs(n, samples): `samples` rows and n columns; column j holds one point of
\* each of the `samples` intervals of [0, 1], permuted by order[j]
Lhs(n, samples, u, order) ==
    [k \in 1..samples |->
        [j \in 1..n |-> RdPoint(samples, u, order[j][k] + 1, j)]]

\* the scaling started from the wrong corner: mu_max + (mu_max - mu_min)*X_lhs
ScaleMuFromMax(mu_min, mu_max, X_lhs, n_s) ==
    [err |-> IF Compatible(Len(mu_min), Len(mu_max)) THEN "ok" ELSE "ValueError",
     val |-> IF Compatible(Len(mu_min), Len(mu_max))
             THEN [i \in 1..n_s |->
                    [d \in 1..Max(Len(mu_min), Len(mu_max)) |->
                        RAdd(RInt(Bc(mu_max, d)),
                             RMul(RSub(RInt(Bc(mu_max, d)), RInt(Bc(mu_min, d))),
                                  Bc(X_lhs[i], d)))]]
             ELSE <<>>]

\* mu_min + (mu_max - mu_min)*X_lhs with numpy's broadcasting; "ValueError"
\* when the shapes cannot be broadcast together
ScaleMu(mu_min, mu_max, X_lhs, n_s) ==
    LET a == Len(mu_min)
        b == Len(mu_max)
        c == Max(a, b)
    IN  IF ~Compatible(a, b) \/ ~Compatible(c, a)
        THEN [err |-> "ValueError", val |-> <<>>]
        ELSE [err |-> "ok",
              val |-> [i \in 1..n_s |->
                        [d \in 1..c |->
                            RAdd(RInt(Bc(mu_min, d)),
                                 RMul(RInt(Bc(mu_max, d) - Bc(mu_min, d)),
                                      Bc(X_lhs[i], d)))]]]

\* sample_mu(n_s, mu_min, mu_max): X_lhs = lhs(n_s, mu_min.shape[0]).T
sample_mu(n_s, mu_min, mu_max, u, order) ==
    LET dim == Len(mu_min)
        X_lhs == Transpose(Lhs(n_s, dim, u, order), dim, n_s)
    IN  ScaleMu(mu_min, mu_max, X_lhs, n_s)

(***************************************************************************)
(* Integer matrices                                                        *)
(***************************************************************************)
NRows(M) == Len(M)

NCols(M) == IF Len(M) = 0 THEN 0 ELSE Len(M[1])

T(M) == [c \in 1..NCols(M) |-> [r \in 1..NRows(M) |-> M[r][c]]]

RECURSIVE SumTo(_, _)
\* f[1] + ... + f[n]
SumTo(f, n) == IF n = 0 THEN 0 ELSE f[n] + SumTo(f, n - 1)

\* numpy's A.dot(B) for 2-D arrays of matching inner dimension
Dot(A, B) ==
    [r \in 1..NRows(A) |->
        [c \in 1..NCols(B) |->
            SumTo([k \in 1..NCols(A) |-> A[r][k] * B[k][c]], NCols(A))]]

(***************************************************************************)
(* The orchestrator PodnnModel, its result directory, the regressor        *)
(***************************************************************************)
\* the (n_v, x_mesh, n_t) the orchestrator is constructed with; the rows of
\* x_mesh are <<index, x>>; every one has n_h = n_v * n_xyz = 2
Setups ==
    { [n_v |-> 1, x_mesh |-> <<<<1, 0>>, <<2, 1>>>>, n_t |-> 0],
      [n_v |-> 2, x_mesh |-> <<<<1, 0>>>>, n_t |-> 2] }

\* PodnnModel.__init__ up to the call of save_setup_data
NewObj(n_v, x_mesh, n_t) ==
    [live |-> TRUE, n_v |-> n_v, x_mesh |-> x_mesh, n_xyz |-> Len(x_mesh),
     n_h |-> n_v * Len(x_mesh), n_t |-> n_t, has_t |-> n_t > 0,
     regnn |-> None, n_L |-> None, n_d |-> None, V |-> None,
     layers |-> None, pod_sig |-> None, lr |-> None]

\* no orchestrator constructed yet
NoObj ==
    [live |-> FALSE, n_v |-> 0, x_mesh |-> <<>>, n_xyz |-> 0,
     n_h |-> 0, n_t |-> 0, has_t |-> FALSE,
     regnn |-> None, n_L |-> None, n_d |-> None, V |-> None,
     layers |-> None, pod_sig |-> None, lr |-> None]

\* the result directory with no checkpoint in it
EmptyDisk == [setup |-> None, train |-> None, model |-> None]

\* outcome of an operation: the arguments of the call that matter afterwards,
\* what it returned or raised, and which steps ran
Ret(op, args, status, val, ran) ==
    [op |-> op, args |-> args, status |-> status, val |-> val, ran |-> ran]

NoArgs == [none |-> TRUE]

NoRet == Ret("none", NoArgs, "ok", None, {})

\* save_setup_data: pickle (n_v, x_mesh, n_t) to the setup checkpoint
save_setup_data(o, d) == [d EXCEPT !.setup = Some(<<o.n_v, o.x_mesh, o.n_t>>)]

\* load_setup_data: the pickled tuple, or FileNotFoundError
load_setup_data(d) ==
    IF d.setup = None
    THEN [err |-> "FileNotFoundError", val |-> None]
    ELSE [err |-> "ok", val |-> Val(d.setup)]

\* save_train_data(a1..a5): pickle (n_L, n_d, V, pod_sig, a1, .., a5)
save_train_data(o, d, a1, a2, a3, a4, a5) ==
    [d EXCEPT !.train = Some(<<o.n_L, o.n_d, o.V, o.pod_sig, a1, a2, a3, a4, a5>>)]

\* load_train_data returning data[3:], one entry too many
load_train_data_OffByOne(o, d) ==
    IF d.train = None
    THEN [err |-> "FileNotFoundError", obj |-> o, val |-> None]
    ELSE LET data == Val(d.train) IN
         [err |-> "ok",
          obj |-> [o EXCEPT !.n_L = data[1], !.n_d = data[2],
                            !.V = data[3], !.pod_sig = data[4]],
          val |-> SubSeq(data, 4, Len(data))]

\* load_train_data: sets n_L, n_d, V, pod_sig from data[0..3], returns data[4:]
load_train_data(o, d) ==
    IF d.train = None
    THEN [err |-> "FileNotFoundError", obj |-> o, val |-> None]
    ELSE LET data == Val(d.train) IN
         [err |-> "ok",
          obj |-> [o EXCEPT !.n_L = data[1], !.n_d = data[2],
                            !.V = data[3], !.pod_sig = data[4]],
          val |-> SubSeq(data, 5, Len(data))]

\* the orthonormal bases perform_pod / perform_fast_pod can return for n_h = 2:
\* n_h rows, n_L >= 1 columns, V^T V = I
Bases ==
    { <<<<1>>, <<0>>>>, <<<<1, 0>>, <<0, 1>>>> }

\* perform_pod(U, eps, n_L), perform_fast_pod(U_struct, eps, eps_init): the
\* bases the extractor may return for the snapshots U
perform_pod(U) == {V \in Bases : NRows(V) = NRows(U)}

\* np.stack((U, U_pod), axis=-1).std(-1).mean(-1): per row, the mean over the
\* columns of the standard deviation of the pair, |U - U_pod| / 2
PodSig(U, U_pod) ==
    [r \in 1..NRows(U) |->
        Rat(SumTo([j \in 1..NCols(U) |-> Abs(U[r][j] - U_pod[r][j])], NCols(U)),
            2 * NCols(U))]

\* V, n_L, the projection v = (V^T U)^T and pod_sig, set from the snapshots U
WithBasis(o, U, V) ==
    LET v == T(Dot(T(V), U))
        U_pod == Dot(V, T(v))
    IN  [o EXCEPT !.V = Some(V), !.n_L = Some(NCols(V)),
                  !.pod_sig = Some(PodSig(U, U_pod))]

\* what sampling, splitting and the oracle u give generate_dataset for one
\* training and one test sample: the parameter samples of the two splits and
\* their snapshots, one column per sample (n_t = 0) or per time step (n_t = 2)
GenDraws(o) ==
    IF o.has_t
    THEN { [mu_train |-> <<<<1>>>>, mu_test |-> <<<<3>>>>,
            U_train |-> <<<<2, 4>>, <<0, 0>>>>, U_test |-> <<<<6, 6>>, <<0, 0>>>>],
           [mu_train |-> <<<<3>>>>, mu_test |-> <<<<1>>>>,
            U_train |-> <<<<2, 2>>, <<4, 0>>>>, U_test |-> <<<<2, 0>>, <<0, 0>>>>] }
    ELSE { [mu_train |-> <<<<1>>>>, mu_test |-> <<<<3>>>>,
            U_train |-> <<<<2>>, <<0>>>>, U_test |-> <<<<6>>, <<0>>>>],
           [mu_train |-> <<<<3>>>>, mu_test |-> <<<<1>>>>,
            U_train |-> <<<<2>>, <<4>>>>, U_test |-> <<<<2>>, <<0>>>>] }

\* the regression inputs create_snapshots pairs with the snapshots: one row mu
\* per sample, or n_t rows (t, mu) per sample with t = linspace(0, 1, n_t)
InputsOf(o, mu) ==
    IF o.has_t
    THEN [r \in 1..(o.n_t * Len(mu)) |->
            <<(r - 1) % o.n_t>> \o mu[((r - 1) \div o.n_t) + 1]]
    ELSE mu

\* generate_dataset(u, mu_min, mu_max, n_s, ..., use_cache), lines 192-285;
\* g: the draws, V: the basis extracted, u_ok: whether the oracle returned
generate_dataset(o, d, use_cache, mu_min, g, V, u_ok) ==
    IF use_cache
    THEN LET l == load_train_data(o, d) IN
         [err |-> l.err, obj |-> l.obj, disk |-> d, val |-> l.val, ran |-> {}]
    ELSE LET n_d == Len(mu_min) + (IF o.has_t THEN 1 ELSE 0)
             o1 == [o EXCEPT !.n_d = Some(n_d)]
         IN  IF ~u_ok
             THEN [err |-> "EvaluationError", obj |-> o1, disk |-> d,
                   val |-> None, ran |-> {"sample", "oracle"}]
             ELSE LET o2 == WithBasis(o1, g.U_train, V)
                      X_v_train == InputsOf(o, g.mu_train)
                      X_v_test == InputsOf(o, g.mu_test)
                      v_train == T(Dot(T(V), g.U_train))
                  IN  [err |-> "ok", obj |-> o2,
                       disk |-> save_train_data(o2, d, X_v_train, v_train,
                                                g.U_train, X_v_test, g.U_test),
                       val |-> <<X_v_train, v_train, g.U_train, X_v_test, g.U_test>>,
                       ran |-> {"sample", "oracle", "pod", "save"}]

\* U.reshape-free form of a flat buffer as a rows x cols array (row-major)
Reshape(flat, rows, cols) ==
    [r \in 1..rows |-> [c \in 1..cols |-> flat[(r - 1) * cols + c]]]

\* lines 156-160: U[:, i] = u_mesh[st:en, :].T.reshape((n_h,)), st = n_xyz*i
MeshToU(u_mesh, n_xyz, n_v, n_s) ==
    [r \in 1..(n_xyz * n_v) |->
        [i \in 1..n_s |->
            u_mesh[n_xyz * (i - 1) + ((r - 1) % n_xyz) + 1][((r - 1) \div n_xyz) + 1]]]

\* the rows of M but row t, in order
RowsBut(M, t) == [i \in 1..(Len(M) - 1) |-> IF i < t THEN M[i] ELSE M[i + 1]]

\* what the caller gives convert_dataset: the stacked field values, as a flat
\* buffer of n_xyz*n_s*n_v numbers (too short in the last one), and the
\* regression inputs X_v of n_s = 2 snapshots, rows mu or (t, mu)
ConvFlats == {<<2, 0, 2, 4>>, <<2, 0>>}

ConvInputs(o) == {IF o.has_t THEN <<<<0, 1>>, <<1, 1>>>> ELSE <<<<1>>, <<3>>>>}

\* convert_dataset(u_mesh, X_v, ..., use_cache, save_cache), lines 142-190;
\* V: the basis extracted, t: the row train_test_split puts in the test split
convert_dataset(o, d, use_cache, save_cache, flat, X_v, V, t) ==
    IF use_cache /\ d.train # None
    THEN LET l == load_train_data(o, d) IN
         [err |-> l.err, obj |-> l.obj, disk |-> d, val |-> l.val, ran |-> {}]
    ELSE LET o1 == [o EXCEPT !.n_xyz = Len(o.x_mesh), !.n_d = Some(NCols(X_v))]
             n_s == NRows(X_v)
         IN  IF Len(flat) < o1.n_xyz * n_s * o.n_v
             THEN [err |-> "ValueError", obj |-> o1, disk |-> d,
                   val |-> None, ran |-> {}]
             ELSE LET u_mesh == Reshape(flat, o1.n_xyz * n_s, o.n_v)
                      U == MeshToU(u_mesh, o1.n_xyz, o.n_v, n_s)
                      o2 == WithBasis(o1, U, V)
                      v == T(Dot(T(V), U))
                      X_v_train == RowsBut(X_v, t)
                      X_v_test == <<X_v[t]>>
                      v_train == RowsBut(v, t)
                      v_test == <<v[t]>>
                      U_test == Dot(V, T(v_test))
                  IN  [err |-> "ok", obj |-> o2,
                       disk |-> IF save_cache
                                THEN save_train_data(o2, d, X_v_train, v_train,
                                                     X_v_test, v_test, U_test)
                                ELSE d,
                       val |-> <<X_v_train, v_train, X_v_test, v_test, U_test>>,
                       ran |-> IF save_cache THEN {"pod", "save"} ELSE {"pod"}]

\* AdvNeuralNetwork(layers, gan_dims, ...): a regressor from (X_dim + Z_dim)
\* inputs to Y_dim outputs, not fitted
NewRegnn(X_dim, Y_dim) ==
    [X_dim |-> X_dim, Y_dim |-> Y_dim, trained |-> FALSE]

\* regnn.fit(X_v_train, v_train, epochs, logger): the fitted regressor
fit(r) == [r EXCEPT !.trained = TRUE]

\* regnn.save_to(model_path, model_params_path)
save_to(r, d) == [d EXCEPT !.model = Some(r)]

\* the coefficient values a regressor may predict
CoefVals == {1, 3}

\* regnn.predict(X_v)[0], regnn.predict_sample(X_v): the coefficient matrices
\* of n rows and Y_dim columns the regressor may return
Coefs(r, n) == [1..n -> [1..r.Y_dim -> CoefVals]]

\* the hidden layers initNN is called with
HLayers == <<4>>

\* initNN(h_layers, h_layers_t, lr, ...), lines 291-303
initNN(o, h_layers, h_layers_t, lr) ==
    LET o1 == [o EXCEPT !.lr = Some(lr)] IN
    IF o.n_d = None \/ o.n_L = None
    THEN [err |-> "TypeError", obj |-> o1]
    ELSE LET X_dim == Val(o.n_d)
             Y_dim == Val(o.n_L)
             Z_dim == Val(o.n_d)
             layers_p == <<X_dim + Z_dim>> \o h_layers \o <<Y_dim>>
             layers_q == <<X_dim + Y_dim>> \o h_layers \o <<Z_dim>>
             layers_t == <<X_dim + Y_dim>> \o h_layers_t \o <<1>>
         IN  [err |-> "ok",
              obj |-> [o1 EXCEPT !.layers = Some(<<layers_p, layers_q, layers_t>>),
                                 !.regnn = Some(NewRegnn(X_dim, Y_dim))]]

\* save_model: regnn.save_to(...); AttributeError when regnn is None
save_model(o, d) ==
    IF o.regnn = None
    THEN [err |-> "AttributeError", disk |-> d]
    ELSE [err |-> "ok", disk |-> save_to(Val(o.regnn), d)]

\* load_model: AdvNeuralNetwork.load_from(...), or FileNotFoundError
load_model(o, d) ==
    IF d.model = None
    THEN [err |-> "FileNotFoundError", obj |-> o]
    ELSE [err |-> "ok", obj |-> [o EXCEPT !.regnn = d.model]]

\* train fitting the regressor before it touches the basis
train_FitFirst(o, d) ==
    IF o.regnn = None
    THEN [err |-> "ValueError", obj |-> o, disk |-> d, ran |-> {}]
    ELSE LET o1 == [o EXCEPT !.regnn = Some(fit(Val(o.regnn)))] IN
         IF o.V = None
         THEN [err |-> "AttributeError", obj |-> o1, disk |-> d, ran |-> {"fit"}]
         ELSE [err |-> "ok", obj |-> o1, disk |-> save_model(o1, d).disk,
               ran |-> {"fit"}]

\* train(X_v, v, epochs, train_val_test), lines 305-336
train(o, d) ==
    IF o.regnn = None
    THEN [err |-> "ValueError", obj |-> o, disk |-> d, ran |-> {}]
    ELSE IF o.V = None
    THEN [err |-> "AttributeError", obj |-> o, disk |-> d, ran |-> {}]
    ELSE LET o1 == [o EXCEPT !.regnn = Some(fit(Val(o.regnn)))]
         IN  [err |-> "ok", obj |-> o1, disk |-> save_model(o1, d).disk,
              ran |-> {"fit"}]

\* predict(X_v), lines 366-378; v_pred: what regnn.predict returns
predict(o, v_pred) ==
    IF o.regnn = None \/ o.V = None
    THEN [err |-> "AttributeError", val |-> None]
    ELSE IF NCols(Val(o.V)) # NCols(v_pred)
    THEN [err |-> "ValueError", val |-> None]
    ELSE [err |-> "ok", val |-> Some(Dot(Val(o.V), T(v_pred)))]

\* load falling back to an orchestrator without regressor when the model
\* checkpoint is missing
load_SkipModel(d) ==
    LET s == load_setup_data(d) IN
    IF s.err # "ok"
    THEN [err |-> s.err, val |-> None, disk |-> d]
    ELSE LET o0 == NewObj(s.val[1], s.val[2], s.val[3])
             d1 == save_setup_data(o0, d)
             l == load_train_data(o0, d1)
         IN  IF l.err # "ok"
             THEN [err |-> l.err, val |-> None, disk |-> d1]
             ELSE [err |-> "ok", val |-> Some(load_model(l.obj, d1).obj), disk |-> d1]

\* PodnnModel.load(save_dir), lines 482-489: the orchestrator returned and the
\* directory after the call
load(d) ==
    LET s == load_setup_data(d) IN
    IF s.err # "ok"
    THEN [err |-> s.err, val |-> None, disk |-> d]
    ELSE LET o0 == NewObj(s.val[1], s.val[2], s.val[3])
             d1 == save_setup_data(o0, d)
             l == load_train_data(o0, d1)
         IN  IF l.err # "ok"
             THEN [err |-> l.err, val |-> None, disk |-> d1]
             ELSE LET m == load_model(l.obj, d1) IN
                  IF m.err # "ok"
                  THEN [err |-> m.err, val |-> None, disk |-> d1]
                  ELSE [err |-> "ok", val |-> Some(m.obj), disk |-> d1]

(***************************************************************************)
(* Floating-point arrays: the arithmetic of predict_var and do_vdot        *)
(*                                                                         *)
(* A float is <<k, m, e>>: k = 0 the finite value m * 2^e with m odd (or   *)
(* 0 = <<0, 0, 0>>), k = 1 NaN, k = 2 the infinity of sign m.  Every       *)
(* operation rounds its exact result to MantBits significant bits, ties    *)
(* to even, as IEEE 754 does with 53 bits for float64; the exponent range  *)
(* is not limited.                                                         *)
(***************************************************************************)
\* significant bits of a float
MantBits == 13

\* exponent of the largest finite float, the value nan_to_num gives infinity
MaxExp == 64

FZero == <<0, 0, 0>>

FNaN == <<1, 0, 0>>

FInf(sgn) == <<2, sgn, 0>>

Sign(n) == IF n < 0 THEN 0 - 1 ELSE 1

RECURSIVE Pow2(_)
Pow2(k) == IF k = 0 THEN 1 ELSE 2 * Pow2(k - 1)

\* number of bits of n >= 0
RECURSIVE BitLen(_)
BitLen(n) == IF n = 0 THEN 0 ELSE 1 + BitLen(n \div 2)

\* the finite float m * 2^e, m odd
RECURSIVE Canon(_, _)
Canon(m, e) ==
    IF m = 0 THEN FZero
    ELSE IF m % 2 = 0 THEN Canon(m \div 2, e + 1)
    ELSE <<0, m, e>>

\* sgn * (a + f) * 2^e rounded to MantBits bits, ties to even; 0 <= f < 1 and
\* f > 0 iff sticky (a then has more than MantBits bits)
Round(sgn, a, e, sticky) ==
    LET k == Max(0, BitLen(a) - MantBits)
        q == a \div Pow2(k)
        r == a % Pow2(k)
        half == IF k = 0 THEN 1 ELSE Pow2(k - 1)
        up == k > 0 /\ (r > half \/ (r = half /\ (sticky \/ q % 2 = 1)))
    IN  Canon(sgn * (IF up THEN q + 1 ELSE q), e + k)

\* floor(log2 |x|) of a finite x # 0
FExp(x) == x[3] + BitLen(Abs(x[2])) - 1

\* x + y
FAdd(x, y) ==
    IF x[1] = 1 \/ y[1] = 1 THEN FNaN
    ELSE IF x[1] = 2 /\ y[1] = 2 THEN (IF x[2] = y[2] THEN x ELSE FNaN)
    ELSE IF x[1] = 2 THEN x
    ELSE IF y[1] = 2 THEN y
    ELSE IF x[2] = 0 THEN y
    ELSE IF y[2] = 0 THEN x
    ELSE IF FExp(x) - FExp(y) > MantBits + 1 THEN x
    ELSE IF FExp(y) - FExp(x) > MantBits + 1 THEN y
    ELSE LET e == Min(x[3], y[3])
             s == x[2] * Pow2(x[3] - e) + y[2] * Pow2(y[3] - e)
         IN  Round(Sign(s), Abs(s), e, FALSE)

FNeg(x) == <<x[1], 0 - x[2], x[3]>>

\* x - y
FSub(x, y) == FAdd(x, FNeg(y))

\* x * y
FMul(x, y) ==
    IF x[1] = 1 \/ y[1] = 1 THEN FNaN
    ELSE IF x[1] = 2 \/ y[1] = 2
    THEN (IF x[2] = 0 \/ y[2] = 0 THEN FNaN ELSE FInf(Sign(x[2]) * Sign(y[2])))
    ELSE Round(Sign(x[2] * y[2]), Abs(x[2] * y[2]), x[3] + y[3], FALSE)

\* n * x for a Python int n
FMulInt(n, x) ==
    IF x[1] = 1 THEN FNaN
    ELSE IF x[1] = 2
    THEN (IF n = 0 THEN FNaN ELSE FInf(Sign(n) * x[2]))
    ELSE Round(Sign(n * x[2]), Abs(n * x[2]), x[3], FALSE)

\* the least k >= k0 with a * 2^k >= lim
RECURSIVE ShiftFor(_, _, _)
ShiftFor(a, lim, k0) ==
    IF a * Pow2(k0) >= lim THEN k0 ELSE ShiftFor(a, lim, k0 + 1)

\* x / n for a Python int n >= 0; numpy gives 0/0 = nan and x/0 = +-inf
FDivInt(x, n) ==
    IF x[1] = 1 THEN FNaN
    ELSE IF n = 0 THEN (IF x[2] = 0 THEN FNaN ELSE FInf(Sign(x[2])))
    ELSE IF x[1] = 2 \/ x[2] = 0 THEN x
    ELSE LET a == Abs(x[2])
             k == ShiftFor(a, n * Pow2(MantBits), 0)
             q == (a * Pow2(k)) \div n
             r == (a * Pow2(k)) % n
         IN  Round(Sign(x[2]), q, x[3] - k, r # 0)

\* floor(sqrt(M)), given lo * lo <= M < hi * hi
RECURSIVE ISqrt(_, _, _)
ISqrt(M, lo, hi) ==
    IF hi - lo <= 1 THEN lo
    ELSE LET mid == (lo + hi) \div 2 IN
         IF mid * mid <= M THEN ISqrt(M, mid, hi) ELSE ISqrt(M, lo, mid)

\* np.sqrt(x): nan for a negative x
FSqrt(x) ==
    IF x[1] = 1 THEN FNaN
    ELSE IF x[1] = 2 THEN (IF x[2] > 0 THEN x ELSE FNaN)
    ELSE IF x[2] = 0 THEN x
    ELSE IF x[2] < 0 THEN FNaN
    ELSE LET odd == x[3] % 2 = 1
             m1 == IF odd THEN 2 * x[2] ELSE x[2]
             e1 == IF odd THEN x[3] - 1 ELSE x[3]
             k == ShiftFor(m1, Pow2(2 * MantBits), 0)
             k2 == IF k % 2 = 0 THEN k ELSE k + 1
             M == m1 * Pow2(k2)
             s == ISqrt(M, Pow2(MantBits), Pow2(MantBits + 1))
         IN  Round(1, s, (e1 - k2) \div 2, s * s # M)

\* np.nan_to_num(x) without the replacement of nan and of the infinities
nan_to_num_Keep(x) == x

\* np.nan_to_num(x): nan -> 0, +-inf -> the largest finite floats
nan_to_num(x) ==
    IF x[1] = 1 THEN FZero
    ELSE IF x[1] = 2 THEN <<0, x[2] * (Pow2(MantBits) - 1), MaxExp>>
    ELSE x

\* the float nearest to the rational p/q, p >= 0
FromRat(x) == FDivInt(Round(1, x[1], 0, FALSE), x[2])

\* x and y are the same number (nan equals nothing)
FEq(x, y) == x[1] # 1 /\ y[1] # 1 /\ x = y

\* np.zeros((rows, cols))
Zeros(rows, cols) == [r \in 1..rows |-> [c \in 1..cols |-> FZero]]

\* elementwise A + B, A - B, A ** 2, n * A, A / n, sqrt, nan_to_num
MAdd(A, B) == [r \in DOMAIN A |-> [c \in DOMAIN A[r] |-> FAdd(A[r][c], B[r][c])]]

MSub(A, B) == [r \in DOMAIN A |-> [c \in DOMAIN A[r] |-> FSub(A[r][c], B[r][c])]]

MSq(A) == [r \in DOMAIN A |-> [c \in DOMAIN A[r] |-> FMul(A[r][c], A[r][c])]]

MMulInt(n, A) == [r \in DOMAIN A |-> [c \in DOMAIN A[r] |-> FMulInt(n, A[r][c])]]

MDivInt(A, n) == [r \in DOMAIN A |-> [c \in DOMAIN A[r] |-> FDivInt(A[r][c], n)]]

MSqrt(A) == [r \in DOMAIN A |-> [c \in DOMAIN A[r] |-> FSqrt(A[r][c])]]

MNanToNum(A) == [r \in DOMAIN A |-> [c \in DOMAIN A[r] |-> nan_to_num(A[r][c])]]

\* A + sig[:, np.newaxis]
MAddCol(A, sig) == [r \in DOMAIN A |-> [c \in DOMAIN A[r] |-> FAdd(A[r][c], sig[r])]]

RECURSIVE FSumTo(_, _)
FSumTo(f, n) == IF n = 0 THEN FZero ELSE FAdd(FSumTo(f, n - 1), f[n])

\* V.dot(B) for the basis V and a float array B
FDot(V, B) ==
    [r \in 1..NRows(V) |->
        [c \in 1..NCols(B) |->
            FSumTo([l \in 1..NCols(V) |-> FMulInt(V[r][l], B[l][c])], NCols(V))]]

(***************************************************************************)
(* The uncertainty predictions: predict_var, predict_heavy, do_vdot        *)
(***************************************************************************)
\* the number of draws of predict_var
samples == 200

\* the coefficients a draw of the regressor may hold: 3, and 4915/16384, the
\* float nearest to 0.3
FCoefs == {<<0, 3, 0>>, <<0, 4915, 0 - 14>>}

\* regnn.predict_sample(X_v) over the calls of one predict_var: a regressor
\* that returns the row a on every call ("const"), or a and b in turn ("alt")
Streams(o) ==
    IF o.n_L = None
    THEN {[kind |-> "const", a |-> <<>>, b |-> <<>>]}
    ELSE LET Rows == [1..Val(o.n_L) -> FCoefs] IN
         {[kind |-> "const", a |-> a, b |-> a] : a \in Rows}
           \cup {[kind |-> "alt", a |-> p[1], b |-> p[2]] :
                   p \in {q \in Rows \X Rows :
                             \A l \in 1..Val(o.n_L) : q[1][l] # q[2][l]}}

\* the draw of call number i + 1 for N inputs: N rows of n_L coefficients
Draw(st, i, N) ==
    [r \in 1..N |-> IF st.kind = "const" \/ i % 2 = 0 THEN st.a ELSE st.b]

\* predict_sample(X_v): U_pred = V.dot(v_pred.T) for the draw v_pred
predict_sample(o, v_pred) == FDot(Val(o.V), T(v_pred))

\* predict_var after the loop, lines 397-404
PredictVarResult(o, U_tot, U_tot_sq) ==
    LET U_pred_hifi_mean == MDivInt(U_tot, samples)
        sig == MNanToNum(MSqrt(MDivInt(
                   MSub(MMulInt(samples, U_tot_sq), MSq(U_tot)),
                   samples * (samples - 1))))
    IN  [mean |-> U_pred_hifi_mean,
         sig |-> sig,
         std |-> IF o.pod_sig # None
                 THEN MAddCol(sig, [r \in 1..o.n_h |-> FromRat(Val(o.pod_sig)[r])])
                 ELSE sig]

\* loop_vdot(n_s, U_tot, U_tot_sq, V, v_pred_hifi), samples taken in order
RECURSIVE loop_vdot(_, _, _, _, _)
loop_vdot(n_s, U_tot, U_tot_sq, V, v_pred_hifi) ==
    IF n_s = 0
    THEN <<U_tot, U_tot_sq>>
    ELSE LET p == loop_vdot(n_s - 1, U_tot, U_tot_sq, V, v_pred_hifi)
             U == FDot(V, T(<<v_pred_hifi[n_s]>>))
         IN  <<MAdd(p[1], U), MAdd(p[2], MSq(U))>>

\* loop_vdot_t(n_s, n_t, U_tot, U_tot_sq, V, v_pred_hifi): sample i is the
\* rows n_t*(i-1)+1 .. n_t*i of v_pred_hifi
RECURSIVE loop_vdot_t(_, _, _, _, _, _)
loop_vdot_t(n_s, n_t, U_tot, U_tot_sq, V, v_pred_hifi) ==
    IF n_s = 0
    THEN <<U_tot, U_tot_sq>>
    ELSE LET p == loop_vdot_t(n_s - 1, n_t, U_tot, U_tot_sq, V, v_pred_hifi)
             v_pred_hifi_i == T(SubSeq(v_pred_hifi, n_t * (n_s - 1) + 1, n_t * n_s))
             U == FDot(V, v_pred_hifi_i)
         IN  <<MAdd(p[1], U), MAdd(p[2], MSq(U))>>

\* do_vdot(v), lines 411-431; without time the arrays of shape (n_h,) are
\* held as one column
do_vdot(o, v) ==
    LET rows == Len(v)
        n_s == IF o.has_t THEN rows \div o.n_t ELSE rows
        acc == IF o.has_t
               THEN loop_vdot_t(n_s, o.n_t, Zeros(o.n_h, o.n_t),
                                Zeros(o.n_h, o.n_t), Val(o.V), v)
               ELSE loop_vdot(n_s, Zeros(o.n_h, 1), Zeros(o.n_h, 1), Val(o.V), v)
        U_tot == acc[1]
        U_tot_sq == acc[2]
    IN  [n_s |-> n_s,
         mean |-> MDivInt(U_tot, n_s),
         std |-> MNanToNum(MSqrt(MDivInt(
                     MSub(MMulInt(n_s, U_tot_sq), MSq(U_tot)),
                     n_s * (n_s - 1))))]

(***************************************************************************)
(* The operations of the orchestrator as actions                           *)
(***************************************************************************)
\* model = PodnnModel(resdir, n_v, x_mesh, n_t), in a new process or in place
\* of the orchestrator held; a result directory is reused for one setup only
Construct ==
    /\ \E s \in Setups :
         LET o == NewObj(s.n_v, s.x_mesh, s.n_t) IN
         /\ disk.setup # None => Val(disk.setup) = <<s.n_v, s.x_mesh, s.n_t>>
         /\ obj' = o
         /\ disk' = save_setup_data(o, disk)
    /\ ret' = Ret("init", NoArgs, "ok", None, {})
    /\ UNCHANGED <<smp, vd, snap, red>>

GenerateDataset ==
    /\ obj.live
    /\ \E use_cache \in BOOLEAN, u_ok \in BOOLEAN :
       \E g \in IF use_cache \/ ~u_ok THEN {CHOOSE x \in GenDraws(obj) : TRUE}
                ELSE GenDraws(obj) :
       \E V \in IF use_cache \/ ~u_ok THEN {CHOOSE x \in Bases : TRUE}
                ELSE perform_pod(g.U_train) :
         \E r \in {generate_dataset(obj, disk, use_cache, <<0>>, g, V, u_ok)} :
         /\ use_cache => u_ok
         /\ obj' = r.obj
         /\ disk' = r.disk
         /\ ret' = Ret("generate_dataset", [use_cache |-> use_cache],
                      r.err, r.val, r.ran)
    /\ UNCHANGED <<smp, vd, snap, red>>

ConvertDataset ==
    /\ obj.live
    /\ \E use_cache \in BOOLEAN, save_cache \in BOOLEAN, flat \in ConvFlats,
          X_v \in ConvInputs(obj) :
       LET cached == use_cache /\ disk.train # None
           short == Len(flat) < obj.n_h * NRows(X_v)
       IN
       \E V \in IF cached \/ short THEN {CHOOSE x \in Bases : TRUE} ELSE Bases :
       \E t \in IF cached \/ short THEN {1} ELSE 1..NRows(X_v) :
         \E r \in {convert_dataset(obj, disk, use_cache, save_cache, flat, X_v, V, t)} :
         /\ obj' = r.obj
         /\ disk' = r.disk
         /\ ret' = Ret("convert_dataset",
                      [use_cache |-> use_cache, save_cache |-> save_cache],
                      r.err, r.val, r.ran)
    /\ UNCHANGED <<smp, vd, snap, red>>

LoadTrainData ==
    /\ obj.live
    /\ \E r \in {load_train_data(obj, disk)} :
         /\ obj' = r.obj
         /\ ret' = Ret("load_train_data", NoArgs, r.err, r.val, {})
    /\ UNCHANGED <<disk, smp, vd, snap, red>>

InitNN ==
    /\ obj.live
    /\ \E r \in {initNN(obj, HLayers, HLayers, 1)} :
         /\ obj' = r.obj
         /\ ret' = Ret("initNN", NoArgs, r.err, None, {})
    /\ UNCHANGED <<disk, smp, vd, snap, red>>

Train ==
    /\ obj.live
    /\ \E r \in {train(obj, disk)} :
         /\ obj' = r.obj
         /\ disk' = r.disk
         /\ ret' = Ret("train", NoArgs, r.err, None, r.ran)
    /\ UNCHANGED <<smp, vd, snap, red>>

Predict ==
    /\ obj.live
    /\ \E Y \in 1..2 : \E v_pred \in [1..1 -> [1..Y -> CoefVals]] :
         /\ obj.regnn # None => Val(obj.regnn).Y_dim = Y
         /\ obj.regnn = None => (Y = 1 /\ v_pred = <<<<1>>>>)
         /\ \E r \in {predict(obj, v_pred)} :
            ret' = Ret("predict", NoArgs, r.err, r.val, {})
    /\ UNCHANGED <<obj, disk, smp, vd, snap, red>>

SaveModel ==
    /\ obj.live
    /\ \E r \in {save_model(obj, disk)} :
         /\ disk' = r.disk
         /\ ret' = Ret("save_model", NoArgs, r.err, None, {})
    /\ UNCHANGED <<obj, smp, vd, snap, red>>

LoadModel ==
    /\ obj.live
    /\ \E r \in {load_model(obj, disk)} :
         /\ obj' = r.obj
         /\ ret' = Ret("load_model", NoArgs, r.err, None, {})
    /\ UNCHANGED <<disk, smp, vd, snap, red>>

\* model = PodnnModel.load(save_dir): on failure the caller keeps what it had
Load ==
    /\ \E r \in {load(disk)} :
         /\ obj' = IF r.err = "ok" THEN Val(r.val) ELSE obj
         /\ disk' = r.disk
         /\ ret' = Ret("load", NoArgs, r.err, r.val, {})
    /\ UNCHANGED <<smp, vd, snap, red>>

IdleSmp == [n_s |-> 1, mu_min |-> <<0>>, mu_max |-> <<2>>,
            status |-> "idle", out |-> <<>>]

IdleVd == [status |-> "idle"]

IdleSnap == [status |-> "idle"]

IdleRed == [status |-> "idle"]

Init ==
    /\ obj = NoObj
    /\ disk = EmptyDisk
    /\ ret = NoRet
    /\ smp = IdleSmp
    /\ vd = IdleVd
    /\ snap = IdleSnap
    /\ red = IdleRed

Next ==
    \/ Construct
    \/ GenerateDataset
    \/ ConvertDataset
    \/ LoadTrainData
    \/ InitNN
    \/ Train
    \/ Predict
    \/ SaveModel
    \/ LoadModel
    \/ Load

Spec == Init /\ [][Next]_vars

InitSmp ==
    \E n_s \in 1..MaxNs, mu_min \in MuMins, mu_max \in MuMaxs :
        smp = [n_s |-> n_s, mu_min |-> mu_min, mu_max |-> mu_max,
               status |-> "call", out |-> <<>>]

\* one call of sample_mu, with the draws of rand and of permutation
SampleMu ==
    /\ smp.status = "call"
    /\ LET dim == Len(smp.mu_min) IN
       \E u \in RandMatrices(dim, smp.n_s), order \in [1..smp.n_s -> Perms(dim)] :
          \E r \in {sample_mu(smp.n_s, smp.mu_min, smp.mu_max, u, order)} :
          smp' = [smp EXCEPT !.status = r.err,
                             !.out = r.val]
    /\ UNCHANGED <<obj, disk, ret, vd, snap, red>>

InitSampler ==
    /\ InitSmp
    /\ obj = NoObj
    /\ disk = EmptyDisk
    /\ ret = NoRet
    /\ vd = IdleVd
    /\ snap = IdleSnap
    /\ red = IdleRed

NextSampler == SampleMu

SpecSampler == InitSampler /\ [][NextSampler]_vars

(***************************************************************************)
(* The uncertainty predictions as actions; the loop of predict_var is      *)
(* taken one iteration at a time                                           *)
(***************************************************************************)
\* the number of inputs X_v holds at most
MaxInputs == 2

\* the number of rows predict_heavy is given at most
MaxRows == 4

\* the numbers of draws a caller may want
NMcAsked == {1, samples}

\* a call of predict_var or predict_heavy and where it stands
Call(status, op, err, asked, N, st, i, calls, U_tot, U_tot_sq, n, mean, sig, std) ==
    [status |-> status, op |-> op, err |-> err, asked |-> asked, N |-> N,
     st |-> st, i |-> i, calls |-> calls, U_tot |-> U_tot, U_tot_sq |-> U_tot_sq,
     n |-> n, mean |-> mean, sig |-> sig, std |-> std]

NoStream == [kind |-> "const", a |-> <<>>, b |-> <<>>]

NoCall == Call("idle", "none", "ok", 0, 0, NoStream, 0, 0, <<>>, <<>>, 0, <<>>, <<>>, <<>>)

\* predict_var(X_v) is entered by a caller who wants `asked` draws: lines
\* 390-392
PredictVarBegin ==
    /\ obj.live
    /\ vd.status = "idle"
    /\ \E N \in 1..MaxInputs, asked \in NMcAsked, st \in Streams(obj) :
         vd' = Call("loop", "predict_var", "ok", asked, N, st, 0, 0,
                    Zeros(obj.n_h, N), Zeros(obj.n_h, N), samples, <<>>, <<>>, <<>>)
    /\ UNCHANGED <<obj, disk, ret, smp, snap, red>>

\* one iteration of the loop, lines 393-396
PredictVarStep ==
    /\ vd.status = "loop"
    /\ vd.i < samples
    /\ IF obj.regnn = None
       THEN vd' = [vd EXCEPT !.status = "done", !.err = "AttributeError"]
       ELSE IF obj.V = None
       THEN vd' = [vd EXCEPT !.status = "done", !.err = "AttributeError",
                             !.calls = @ + 1]
       ELSE \E U \in {predict_sample(obj, Draw(vd.st, vd.i, vd.N))} :
            vd' = [vd EXCEPT !.i = @ + 1, !.calls = @ + 1,
                             !.U_tot = MAdd(@, U),
                             !.U_tot_sq = MAdd(@, MSq(U))]
    /\ UNCHANGED <<obj, disk, ret, smp, snap, red>>

\* the mean and the standard deviation once the loop is over, lines 397-404
PredictVarEnd ==
    /\ vd.status = "loop"
    /\ vd.i = samples
    /\ \E r \in {PredictVarResult(obj, vd.U_tot, vd.U_tot_sq)} :
         vd' = [vd EXCEPT !.status = "done", !.mean = r.mean,
                          !.sig = r.sig, !.std = r.std]
    /\ UNCHANGED <<obj, disk, ret, smp, snap, red>>

\* predict_heavy(X_v), lines 406-409: one draw of the regressor, then do_vdot
PredictHeavy ==
    /\ obj.live
    /\ vd.status = "idle"
    /\ IF obj.regnn = None
       THEN vd' = [NoCall EXCEPT !.status = "done", !.op = "do_vdot",
                                 !.err = "AttributeError"]
       ELSE \E rows \in 1..MaxRows :
            \E v \in [1..rows -> [1..Val(obj.n_L) -> FCoefs]] :
            \E r \in {do_vdot(obj, v)} :
              vd' = Call("done", "do_vdot", "ok", 0, rows, NoStream, 0, 1,
                         <<>>, <<>>, r.n_s, r.mean, r.std, r.std)
    /\ UNCHANGED <<obj, disk, ret, smp, snap, red>>

\* the orchestrators the predictions are asked of: after generate_dataset,
\* and after initNN and train as well
UQStates ==
    UNION { LET o0 == NewObj(s.n_v, s.x_mesh, s.n_t)
                d0 == save_setup_data(o0, EmptyDisk)
            IN  UNION { { LET g1 == generate_dataset(o0, d0, FALSE, <<0>>, g, V, TRUE)
                              n1 == initNN(g1.obj, HLayers, HLayers, 1)
                              t1 == train(n1.obj, g1.disk)
                          IN  IF trained
                              THEN [obj |-> t1.obj, disk |-> t1.disk]
                              ELSE [obj |-> g1.obj, disk |-> g1.disk]
                          : V \in perform_pod(g.U_train), trained \in BOOLEAN }
                      : g \in GenDraws(o0) }
          : s \in Setups }

\* the caller takes the outcome; the orchestrator is ready for the next call
Return ==
    /\ vd.status = "done"
    /\ vd' = NoCall
    /\ UNCHANGED <<obj, disk, ret, smp, snap, red>>

InitUQ ==
    /\ \E s \in UQStates : obj = s.obj /\ disk = s.disk
    /\ ret = NoRet
    /\ smp = IdleSmp
    /\ vd = NoCall
    /\ snap = IdleSnap
    /\ red = IdleRed

NextUQ ==
    \/ PredictVarBegin
    \/ PredictVarStep
    \/ PredictVarEnd
    \/ PredictHeavy
    \/ Return

SpecUQ == InitUQ /\ [][NextUQ]_vars

(***************************************************************************)
(* The snapshot generator: create_snapshots over loop_u and loop_u_t       *)
(*                                                                         *)
(* The oracle u is the caller's function: its value for component c at     *)
(* node k, time t and parameters mu is kept symbolic, as the tuple         *)
(* <<c, k, t, mu>>, and the same value with output noise added as          *)
(* <<c, k, t, mu, 1>>.  An entry np.zeros left untouched is <<>>.  The     *)
(* inputs X_v are exact rationals.                                         *)
(***************************************************************************)
MaxSnapNs == 2

MaxNt == 2

\* the shapes (n_v, n_xyz) of the solution: components and mesh nodes
SnapShapes == {<<1, 1>>, <<1, 2>>, <<2, 1>>, <<2, 2>>}

RECURSIVE RSumTo(_, _)
\* f[1] + .. + f[n] over rationals
RSumTo(f, n) == IF n = 0 THEN RInt(0) ELSE RAdd(f[n], RSumTo(f, n - 1))

\* np.std(v): the population standard deviation sqrt(mean((v - mean(v))^2));
\* the square root is exact, the variances met here being perfect squares
Std(v) ==
    LET n == Len(v)
        mean == RMul(RSumTo(v, n), Rat(1, n))
        sq == [d \in 1..n |-> RMul(RSub(v[d], mean), RSub(v[d], mean))]
        var == RMul(RSumTo(sq, n), Rat(1, n))
    IN  <<ISqrt(var[1], 0, var[1] + 1), ISqrt(var[2], 0, var[2] + 1)>>

\* np.linspace(t_min, t_max, n_t)
Linspace(t_min, t_max, n_t) ==
    [j \in 1..n_t |->
        IF n_t = 1 THEN t_min
        ELSE RAdd(t_min, RMul(Rat(j - 1, n_t - 1), RSub(t_max, t_min)))]

\* u(X, t, mu): one value per component and node, shape (n_v, n_xyz)
OracleU(n_v, n_xyz, t, mu) ==
    [c \in 1..n_v |-> [k \in 1..n_xyz |-> <<c, k, t, mu>>]]

\* Uij += u_noise*np.std(Uij)*np.random.randn(..): every entry perturbed
AddUNoise(Uij) ==
    [c \in 1..Len(Uij) |-> [k \in 1..Len(Uij[c]) |-> Append(Uij[c][k], 1)]]

\* A.reshape((a*b,)) of an (a, b) array, in C order
Flat2(A, a, b) ==
    [f \in 1..(a * b) |-> A[((f - 1) \div b) + 1][((f - 1) % b) + 1]]

\* the C-order flattening of an (a, b, c) array
Flat3(A, a, b, c) ==
    [f \in 1..(a * b * c) |->
        A[((f - 1) \div (b * c)) + 1][(((f - 1) \div c) % b) + 1][((f - 1) % c) + 1]]

\* flat.reshape((a, b, c)) in C order
Reshape3(flat, a, b, c) ==
    [x \in 1..a |-> [y \in 1..b |-> [z \in 1..c |->
        flat[((x - 1) * b + (y - 1)) * c + z]]]]

\* the matrices mu_lhs the sampler may hand over: n_s rows of one dimension
MuLhsSet(n_s) ==
    LET Mus == {<<RInt(0 - 1)>>, <<RInt(1), RInt(1)>>, <<RInt(1), RInt(3)>>} IN
    {m \in [1..n_s -> Mus] : \A i \in 1..n_s : Len(m[i]) = Len(m[1])}

\* the draws of np.random.randn(dim) / np.random.normal(0, 1, dim)
RandnDraws(dim) ==
    {[d \in 1..dim |-> RInt(1)],
     [d \in 1..dim |-> RInt(IF d % 2 = 1 THEN 0 - 1 ELSE 2)]}

\* create_snapshots, lines 115-134: the arrays declared before the loop
create_snapshots(n_v, n_xyz, n_t, mu_lhs, t_min, t_max, u_noise, x_noise, z) ==
    LET n_s == Len(mu_lhs)
        has_t == n_t > 0
        n_st == IF has_t THEN n_s * n_t ELSE n_s
        n_d == Len(mu_lhs[1]) + (IF has_t THEN 1 ELSE 0)
        n_h == n_v * n_xyz
    IN  [status |-> "loop",
         n_v |-> n_v, n_xyz |-> n_xyz, n_t |-> n_t, has_t |-> has_t,
         n_s |-> n_s, n_st |-> n_st, n_d |-> n_d, n_h |-> n_h,
         mu_lhs |-> mu_lhs, t_min |-> t_min, t_max |-> t_max,
         u_noise |-> u_noise, x_noise |-> x_noise, z |-> z,
         X_v |-> [r \in 1..n_st |-> [d \in 1..n_d |-> RInt(0)]],
         U |-> [r \in 1..n_h |-> [c \in 1..n_st |-> <<>>]],
         U_no_noise |-> [r \in 1..n_h |-> [c \in 1..n_st |-> <<>>]],
         U_struct |-> IF has_t
                      THEN Some([r \in 1..n_h |-> [j \in 1..n_t |->
                                    [i \in 1..n_s |-> <<>>]]])
                      ELSE None,
         pc |-> [i \in 1..n_s |-> "todo"],
         loc |-> [i \in 1..n_s |-> None],
         scale |-> [i \in 1..n_s |-> None],
         wX |-> [r \in 1..n_st |-> [d \in 1..n_d |-> {}]],
         wU |-> [r \in 1..n_h |-> [c \in 1..n_st |-> {}]],
         wN |-> [r \in 1..n_h |-> [c \in 1..n_st |-> {}]],
         wS |-> [r \in 1..n_h |-> [j \in 1..n_t |-> [i \in 1..n_s |-> {}]]],
         inter |-> FALSE, no_s |-> FALSE, rs |-> None]

\* loop_u, lines 49-50 of iteration i: X_v[i, :] = mu_lhs[i], then the oracle
\* on the row just written
loop_u_first(s, i) ==
    LET row == s.mu_lhs[i]
        X1 == [s.X_v EXCEPT ![i] = row]
    IN  [s EXCEPT !.X_v = X1,
                  !.wX = [s.wX EXCEPT ![i] = [d \in 1..s.n_d |-> @[d] \cup {i}]],
                  !.loc = [s.loc EXCEPT ![i] =
                              Some(Flat2(OracleU(s.n_v, s.n_xyz, RInt(0), X1[i]),
                                         s.n_v, s.n_xyz))],
                  !.pc = [s.pc EXCEPT ![i] = "mid"]]

\* loop_u, lines 51-58 of iteration i: the input noise, the oracle and the
\* columns U[:, i] and U_no_noise[:, i]
loop_u_second(s, i) ==
    LET noisy == RLt(RInt(0), s.x_noise)
        sc == RMul(s.x_noise, Std(s.X_v[i]))
        row == IF noisy
               THEN [d \in 1..s.n_d |-> RAdd(s.X_v[i][d], RMul(sc, s.z[i][d]))]
               ELSE s.X_v[i]
        X1 == [s.X_v EXCEPT ![i] = row]
        Ui0 == OracleU(s.n_v, s.n_xyz, RInt(0), X1[i])
        U_i == Flat2(IF s.u_noise > 0 THEN AddUNoise(Ui0) ELSE Ui0, s.n_v, s.n_xyz)
    IN  [s EXCEPT !.X_v = X1,
                  !.scale = [s.scale EXCEPT ![i] = IF noisy THEN Some(sc) ELSE None],
                  !.U = [r \in 1..s.n_h |-> [s.U[r] EXCEPT ![i] = U_i[r]]],
                  !.U_no_noise = [r \in 1..s.n_h |->
                                     [s.U_no_noise[r] EXCEPT ![i] = Val(s.loc[i])[r]]],
                  !.wU = [r \in 1..s.n_h |-> [s.wU[r] EXCEPT ![i] = @ \cup {i}]],
                  !.wN = [r \in 1..s.n_h |-> [s.wN[r] EXCEPT ![i] = @ \cup {i}]],
                  !.pc = [s.pc EXCEPT ![i] = "done"]]

\* loop_u_t, line 73: the first row / column of iteration i, counted from 0
SliceStart_Overlap(n_t, i) == (n_t - 1) * i

SliceStart(n_t, i) == n_t * i

\* np.hstack((tT, np.ones_like(tT)*mu_i)): one row per time step, with the
\* parameters first
TimeRows_MuFirst(t, mu_i) == [j \in 1..Len(t) |-> mu_i \o <<t[j]>>]

\* np.hstack((tT, np.ones_like(tT)*mu_i)): one row per time step
TimeRows(t, mu_i) == [j \in 1..Len(t) |-> <<t[j]>> \o mu_i]

\* loop_u_t, lines 79-81: the deviation that scales the input noise of a sample
NoiseDev(mu_i) ==
    LET dev == Std(mu_i) IN IF dev = RInt(0) THEN mu_i[1] ELSE dev

\* loop_u_t, lines 73-84 of iteration i: the inputs X_v[s:e, :]
loop_u_t_first(s, i) ==
    LET t == Linspace(s.t_min, s.t_max, s.n_t)
        st == SliceStart(s.n_t, i - 1)
        mu_i_no_noise == s.mu_lhs[i]
        sc == RMul(s.x_noise, NoiseDev(mu_i_no_noise))
        mu_i == [d \in 1..Len(mu_i_no_noise) |->
                    RAdd(mu_i_no_noise[d], RMul(sc, s.z[i][d]))]
        rows == TimeRows(t, mu_i)
        In(r) == r > st /\ r <= st + s.n_t
    IN  [s EXCEPT !.X_v = [r \in 1..s.n_st |-> IF In(r) THEN rows[r - st] ELSE s.X_v[r]],
                  !.wX = [r \in 1..s.n_st |-> [d \in 1..s.n_d |->
                             IF In(r) THEN s.wX[r][d] \cup {i} ELSE s.wX[r][d]]],
                  !.scale = [s.scale EXCEPT ![i] = Some(sc)],
                  !.loc = [s.loc EXCEPT ![i] = Some(mu_i)],
                  !.pc = [s.pc EXCEPT ![i] = "mid"]]

\* loop_u_t, lines 87-99 of iteration i: the outputs U[:, s:e] and the like
loop_u_t_second(s, i) ==
    LET t == Linspace(s.t_min, s.t_max, s.n_t)
        st == SliceStart(s.n_t, i - 1)
        mu_i == Val(s.loc[i])
        Uij(j) == IF s.u_noise > 0
                  THEN AddUNoise(OracleU(s.n_v, s.n_xyz, t[j], mu_i))
                  ELSE OracleU(s.n_v, s.n_xyz, t[j], mu_i)
        Uij_no_noise(j) == OracleU(s.n_v, s.n_xyz, t[j], s.mu_lhs[i])
        Ui == [c \in 1..s.n_v |-> [k \in 1..s.n_xyz |-> [j \in 1..s.n_t |->
                  Uij(j)[c][k]]]]
        Ui_no_noise == [c \in 1..s.n_v |-> [k \in 1..s.n_xyz |-> [j \in 1..s.n_t |->
                  Uij_no_noise(j)[c][k]]]]
        B == Reshape(Flat3(Ui, s.n_v, s.n_xyz, s.n_t), s.n_h, s.n_t)
        B0 == Reshape(Flat3(Ui_no_noise, s.n_v, s.n_xyz, s.n_t), s.n_h, s.n_t)
        In(c) == c > st /\ c <= st + s.n_t
        U1 == [r \in 1..s.n_h |-> [c \in 1..s.n_st |->
                  IF In(c) THEN B[r][c - st] ELSE s.U[r][c]]]
    IN  [s EXCEPT !.U = U1,
                  !.U_no_noise = [r \in 1..s.n_h |-> [c \in 1..s.n_st |->
                                     IF In(c) THEN B0[r][c - st] ELSE s.U_no_noise[r][c]]],
                  !.U_struct = Some([r \in 1..s.n_h |-> [j \in 1..s.n_t |->
                                   [Val(s.U_struct)[r][j] EXCEPT ![i] = U1[r][st + j]]]]),
                  !.wU = [r \in 1..s.n_h |-> [c \in 1..s.n_st |->
                             IF In(c) THEN s.wU[r][c] \cup {i} ELSE s.wU[r][c]]],
                  !.wN = [r \in 1..s.n_h |-> [c \in 1..s.n_st |->
                             IF In(c) THEN s.wN[r][c] \cup {i} ELSE s.wN[r][c]]],
                  !.wS = [r \in 1..s.n_h |-> [j \in 1..s.n_t |->
                             [s.wS[r][j] EXCEPT ![i] = @ \cup {i}]]],
                  !.pc = [s.pc EXCEPT ![i] = "done"]]

\* lines 59-60 and 100: after the loop, U_struct = U in loop_u, and the return
loop_return(s) ==
    [s EXCEPT !.status = "done",
              !.U_struct = IF s.has_t THEN s.U_struct ELSE Some(s.U)]

RECURSIVE loop_sequential(_, _)
\* the loop of loop_u / loop_u_t run by one thread, iterations 1..i in order
loop_sequential(s, i) ==
    IF i = 0 THEN s
    ELSE LET p == loop_sequential(s, i - 1) IN
         IF s.has_t THEN loop_u_t_second(loop_u_t_first(p, i), i)
         ELSE loop_u_second(loop_u_first(p, i), i)

\* get_u_tuple: (n_v, n_xyz) or (n_v, n_xyz, n_t)
get_u_tuple(s) ==
    IF s.has_t THEN <<s.n_v, s.n_xyz, s.n_t>> ELSE <<s.n_v, s.n_xyz>>

\* restruct(U, no_s) of the orchestrator s; numpy refuses a reshape that
\* changes the number of entries, and a slice assignment whose value cannot
\* be broadcast to the slice
restruct(s, U, no_s) ==
    LET rows == NRows(U)
        cols == NCols(U)
        block == s.n_v * s.n_xyz
        RestructError == [err |-> "ValueError", shape |-> None, val |-> None]
    IN  IF no_s
        THEN IF s.has_t
             THEN IF rows * cols # block * s.n_t THEN RestructError
                  ELSE [err |-> "ok", shape |-> Some(get_u_tuple(s)),
                        val |-> Some(Reshape3(Flat2(U, rows, cols),
                                              s.n_v, s.n_xyz, s.n_t))]
             ELSE IF rows * cols # block THEN RestructError
                  ELSE [err |-> "ok", shape |-> Some(get_u_tuple(s)),
                        val |-> Some(Reshape(Flat2(U, rows, cols), s.n_v, s.n_xyz))]
        ELSE IF s.has_t
        THEN LET n_s == cols \div s.n_t
                 \* U[:, s:e].reshape(get_u_tuple()) of sample i
                 Part(i) == Reshape3(Flat2([r \in 1..rows |-> [j \in 1..s.n_t |->
                                                U[r][SliceStart(s.n_t, i - 1) + j]]],
                                           rows, s.n_t),
                                     s.n_v, s.n_xyz, s.n_t)
             IN  IF n_s > 0 /\ rows * s.n_t # block * s.n_t THEN RestructError
                 \* the slice U_struct[:, :, :, i] has shape (n_v, rows, n_t)
                 ELSE IF n_s > 0 /\ s.n_xyz # rows /\ s.n_xyz # 1 THEN RestructError
                 ELSE [err |-> "ok", shape |-> Some(<<s.n_v, rows, s.n_t, n_s>>),
                       val |-> Some([c \in 1..s.n_v |-> [k \in 1..rows |->
                                    [j \in 1..s.n_t |-> [i \in 1..n_s |->
                                        Part(i)[c][IF s.n_xyz = 1 THEN 1 ELSE k][j]]]]])]
        ELSE IF cols > 0 /\ rows # block THEN RestructError
             ELSE [err |-> "ok", shape |-> Some(<<s.n_v, s.n_xyz, cols>>),
                   val |-> Some([c \in 1..s.n_v |-> [k \in 1..s.n_xyz |->
                                [i \in 1..cols |->
                                    Reshape(Flat2([r \in 1..rows |-> <<U[r][i]>>], rows, 1),
                                            s.n_v, s.n_xyz)[c][k]]]])]

(***************************************************************************)
(* The snapshot generator as a state machine: the iterations of the prange *)
(* loop run in any order and interleave between their two halves           *)
(***************************************************************************)
LoopUFirst ==
    /\ snap.status = "loop" /\ ~snap.has_t
    /\ \E i \in 1..snap.n_s :
          /\ snap.pc[i] = "todo"
          /\ snap' = [loop_u_first(snap, i) EXCEPT
                      !.inter = @ \/ \E k \in 1..snap.n_s : snap.pc[k] = "mid"]
    /\ UNCHANGED <<smp, obj, disk, ret, vd, red>>

LoopUSecond ==
    /\ snap.status = "loop" /\ ~snap.has_t
    /\ \E i \in 1..snap.n_s :
          /\ snap.pc[i] = "mid"
          /\ snap' = loop_u_second(snap, i)
    /\ UNCHANGED <<smp, obj, disk, ret, vd, red>>

LoopUTFirst ==
    /\ snap.status = "loop" /\ snap.has_t
    /\ \E i \in 1..snap.n_s :
          /\ snap.pc[i] = "todo"
          /\ snap' = [loop_u_t_first(snap, i) EXCEPT
                      !.inter = @ \/ \E k \in 1..snap.n_s : snap.pc[k] = "mid"]
    /\ UNCHANGED <<smp, obj, disk, ret, vd, red>>

LoopUTSecond ==
    /\ snap.status = "loop" /\ snap.has_t
    /\ \E i \in 1..snap.n_s :
          /\ snap.pc[i] = "mid"
          /\ snap' = loop_u_t_second(snap, i)
    /\ UNCHANGED <<smp, obj, disk, ret, vd, red>>

LoopReturn ==
    /\ snap.status = "loop"
    /\ \A i \in 1..snap.n_s : snap.pc[i] = "done"
    /\ snap' = loop_return(snap)
    /\ UNCHANGED <<smp, obj, disk, ret, vd, red>>

\* restruct applied to the snapshot matrix that create_snapshots returned
Restruct ==
    /\ snap.status = "done"
    /\ \E no_s \in BOOLEAN :
          snap' = [snap EXCEPT !.status = "restructed",
                               !.no_s = no_s,
                               !.rs = Some(restruct(snap, snap.U, no_s))]
    /\ UNCHANGED <<smp, obj, disk, ret, vd, red>>

InitSnap ==
    /\ \E sh \in SnapShapes, n_t \in 0..MaxNt, n_s \in 1..MaxSnapNs :
       \E mu_lhs \in MuLhsSet(n_s), u_noise \in {0, 1}, x_noise \in {RInt(0), Rat(1, 2)},
          t_max \in IF n_t >= 2 THEN {RInt(0), RInt(1)} ELSE {RInt(0)} :
       \E z \in IF x_noise = RInt(0)
                 THEN {[i \in 1..n_s |-> [d \in 1..Len(mu_lhs[1]) |-> RInt(1)]]}
                 ELSE [1..n_s -> RandnDraws(Len(mu_lhs[1]))] :
           snap = create_snapshots(sh[1], sh[2], n_t, mu_lhs, RInt(0), t_max,
                                   u_noise, x_noise, z)
    /\ obj = NoObj
    /\ disk = EmptyDisk
    /\ ret = NoRet
    /\ smp = IdleSmp
    /\ vd = IdleVd
    /\ red = IdleRed

NextSnap ==
    \/ LoopUFirst
    \/ LoopUSecond
    \/ LoopUTFirst
    \/ LoopUTSecond
    \/ LoopReturn
    \/ Restruct

SpecSnap == InitSnap /\ [][NextSnap]_vars

(***************************************************************************)
(* The reduction of loop_vdot / loop_vdot_t: under parallel=True the        *)
(* compiler gives every thread a contiguous chunk of the prange iterations *)
(* and its own copy of U_tot and U_tot_sq, zero at first, and adds the     *)
(* copies to the arrays passed in, thread by thread, after the loop        *)
(***************************************************************************)
MaxRedNs == 3

NumThreads == 2

\* the orchestrators the kernels are called for: the basis V and n_t
RedSetups ==
    {[V |-> <<<<1, 0>>, <<0, 1>>>>, n_t |-> 0],
     [V |-> <<<<1>>, <<1>>>>, n_t |-> 0],
     [V |-> <<<<1>>, <<0>>>>, n_t |-> 2]}

\* the accumulators a caller may pass in: np.zeros as do_vdot does, or sums
\* of an earlier call
RedInputs(rows, cols) ==
    {Zeros(rows, cols), [r \in 1..rows |-> [c \in 1..cols |-> <<0, 3, 0>>]]}

\* the contiguous chunks of 1..n_s of the threads: thread th runs the
\* iterations c[th - 1] + 1 .. c[th]
Chunks(n_s) ==
    {c \in [0..NumThreads -> 0..n_s] :
        /\ c[0] = 0 /\ c[NumThreads] = n_s
        /\ \A th \in 1..NumThreads : c[th - 1] <= c[th]}

\* lines 18 and 32-35: the field U = V.dot(..) of sample i, one column
\* without time and n_t columns with time
vdot_sample(V, v_pred_hifi, n_t, i) ==
    IF n_t = 0
    THEN FDot(V, T(<<v_pred_hifi[i]>>))
    ELSE FDot(V, T(SubSeq(v_pred_hifi, n_t * (i - 1) + 1, n_t * i)))

\* lines 20-21 and 37-38: U_tot += U; U_tot_sq += U**2
accumulate_NoSquare(acc, U) ==
    [tot |-> MAdd(acc.tot, U), sq |-> MAdd(acc.sq, U)]

accumulate(acc, U) ==
    [tot |-> MAdd(acc.tot, U), sq |-> MAdd(acc.sq, MSq(U))]

RECURSIVE combine(_, _, _)
\* the copies of the threads 1..th added to the arrays passed in
combine(acc, priv, th) ==
    IF th = 0 THEN acc
    ELSE LET p == combine(acc, priv, th - 1) IN
         [tot |-> MAdd(p.tot, priv[th].tot), sq |-> MAdd(p.sq, priv[th].sq)]

\* one iteration of the prange loop, run by the thread it belongs to
RedIter(th) ==
    /\ red.next[th] <= red.chunk[th]
    /\ LET i == red.next[th]
           U == vdot_sample(red.V, red.v_pred_hifi, red.n_t, i)
       IN  red' = [red EXCEPT !.priv[th] = accumulate(@, U),
                              !.next[th] = i + 1,
                              !.cnt[i] = @ + 1]
    /\ UNCHANGED <<smp, obj, disk, ret, vd, snap>>

LoopVdotIter ==
    /\ red.status = "loop" /\ red.n_t = 0
    /\ \E th \in 1..NumThreads : RedIter(th)

LoopVdotTIter ==
    /\ red.status = "loop" /\ red.n_t > 0
    /\ \E th \in 1..NumThreads : RedIter(th)

\* lines 22 and 39: after the loop the copies are combined and returned
LoopVdotReturn ==
    /\ red.status = "loop"
    /\ \A th \in 1..NumThreads : red.next[th] > red.chunk[th]
    /\ red' = [red EXCEPT !.status = "done",
                          !.out = Some(combine([tot |-> red.U_tot, sq |-> red.U_tot_sq],
                                               red.priv, NumThreads))]
    /\ UNCHANGED <<smp, obj, disk, ret, vd, snap>>

InitRed ==
    /\ \E su \in RedSetups, n_s \in 1..MaxRedNs :
       \E v \in [1..(n_s * Max(su.n_t, 1)) -> [1..NCols(su.V) -> FCoefs]],
          c \in Chunks(n_s),
          U_tot \in RedInputs(NRows(su.V), Max(su.n_t, 1)) :
           red = [status |-> "loop", V |-> su.V, n_t |-> su.n_t, n_s |-> n_s,
                  v_pred_hifi |-> v, chunk |-> c,
                  U_tot |-> U_tot, U_tot_sq |-> U_tot,
                  priv |-> [th \in 1..NumThreads |->
                               [tot |-> Zeros(NRows(su.V), Max(su.n_t, 1)),
                                sq |-> Zeros(NRows(su.V), Max(su.n_t, 1))]],
                  next |-> [th \in 1..NumThreads |-> c[th - 1] + 1],
                  cnt |-> [i \in 1..n_s |-> 0],
                  out |-> None]
    /\ obj = NoObj
    /\ disk = EmptyDisk
    /\ ret = NoRet
    /\ smp = IdleSmp
    /\ vd = IdleVd
    /\ snap = IdleSnap

NextRed ==
    \/ LoopVdotIter
    \/ LoopVdotTIter
    \/ LoopVdotReturn

SpecRed == InitRed /\ [][NextRed]_vars

(***************************************************************************)
(* Claims about the sampler                                                *)
(***************************************************************************)
\* the call was made with a valid box: equal lengths, lower[d] < upper[d]
ValidBox ==
    /\ Len(smp.mu_min) = Len(smp.mu_max)
    /\ \A d \in 1..Len(smp.mu_min) : smp.mu_min[d] < smp.mu_max[d]

\* index, in 0..n_s-1, of the stratum of [mu_min[d], mu_max[d]] cut into n_s
\* equal parts that holds sample i's coordinate d
Stratum(i, d) ==
    RFloor(RMul(RSub(smp.out[i][d], RInt(smp.mu_min[d])),
                Rat(smp.n_s, smp.mu_max[d] - smp.mu_min[d])))

\* C1: with a valid box, sample_mu returns n_s samples of which every one of
\* the n_s strata of every dimension holds exactly one.
C1_Stratified ==
    (smp.status # "call" /\ ValidBox) =>
        /\ smp.status = "ok"
        /\ \A d \in 1..Len(smp.mu_min) : \A s \in 0..(smp.n_s - 1) :
              Cardinality({i \in 1..smp.n_s : Stratum(i, d) = s}) = 1

\* C2: with a valid box, sample_mu returns exactly n_s rows of dim columns,
\* every entry [i, d] within [lower[d], upper[d]].
C2_ShapeAndBounds ==
    (smp.status # "call" /\ ValidBox) =>
        /\ smp.status = "ok"
        /\ Len(smp.out) = smp.n_s
        /\ \A i \in 1..smp.n_s :
              /\ Len(smp.out[i]) = Len(smp.mu_min)
              /\ \A d \in 1..Len(smp.mu_min) :
                    /\ RLe(RInt(smp.mu_min[d]), smp.out[i][d])
                    /\ RLe(smp.out[i][d], RInt(smp.mu_max[d]))

\* a returned matrix of several samples in two dimensions, with a lower
\* bound that is not zero and an entry strictly inside the box
C2_Witness ==
    /\ smp.status = "ok"
    /\ ValidBox
    /\ smp.n_s >= 2
    /\ Len(smp.mu_min) = 2
    /\ smp.mu_min[1] # 0
    /\ \E i \in 1..smp.n_s : RLt(RInt(smp.mu_min[1]), smp.out[i][1])

\* C13: when mu_min and mu_max differ in length, sample_mu fails with a shape
\* error and returns no matrix; it never broadcasts one bound against the
\* other.
C13_MismatchRejected ==
    (smp.status # "call" /\ Len(smp.mu_min) # Len(smp.mu_max)) =>
        (smp.status = "ValueError" /\ smp.out = <<>>)

(***************************************************************************)
(* Claims about the snapshot generator and restruct                        *)
(***************************************************************************)
\* C11: in the time-dependent generator with zero noise, column n_t*i + j of U
\* is the snapshot of sample i at time step j, row n_t*i + j of X_v is
\* [t_j, mu_i] with the time first, U_struct[:, j, i] is that same column, and
\* U has n_s*n_t columns, one for each of the n_s*n_t rows of X_v.
C11_TimeOrdering ==
    (snap.status \in {"done", "restructed"} /\ snap.has_t /\ snap.x_noise = RInt(0) /\ snap.u_noise = 0) =>
        LET t == Linspace(snap.t_min, snap.t_max, snap.n_t) IN
        /\ NCols(snap.U) = snap.n_s * snap.n_t
        /\ NRows(snap.X_v) = snap.n_s * snap.n_t
        /\ \A i \in 0..(snap.n_s - 1), j \in 0..(snap.n_t - 1) :
              LET col == snap.n_t * i + j + 1
                  mu == snap.mu_lhs[i + 1]
              IN  /\ snap.X_v[col] = <<t[j + 1]>> \o mu
                  /\ \A c \in 1..snap.n_v, k \in 1..snap.n_xyz :
                        snap.U[(c - 1) * snap.n_xyz + k][col] = <<c, k, t[j + 1], mu>>
                  /\ \A r \in 1..snap.n_h :
                        Val(snap.U_struct)[r][j + 1][i + 1] = snap.U[r][col]

C11_Witness ==
    /\ snap.status \in {"done", "restructed"} /\ snap.has_t /\ snap.x_noise = RInt(0) /\ snap.u_noise = 0
    /\ snap.n_s = 2 /\ snap.n_t = 2 /\ snap.n_v = 2 /\ snap.n_xyz = 2
    /\ snap.t_max = RInt(1)
    /\ snap.mu_lhs[1] # snap.mu_lhs[2]
    /\ snap.U[3][4] = <<2, 1, RInt(1), snap.mu_lhs[2]>>

\* C12: restruct(U) succeeds and returns a tensor of shape
\* (n_v, n_xyz, [n_t,] n_s) whose entry (c, k, [j,] i) is the entry of U for
\* component c and node k of sample i (at time j).
C12_RestructIsReshape ==
    (snap.status = "restructed" /\ ~snap.no_s) =>
        LET r == Val(snap.rs) IN
        /\ r.err = "ok"
        /\ r.shape = Some(IF snap.has_t
                          THEN <<snap.n_v, snap.n_xyz, snap.n_t, snap.n_s>>
                          ELSE <<snap.n_v, snap.n_xyz, snap.n_s>>)
        /\ \A c \in 1..snap.n_v, k \in 1..snap.n_xyz, i \in 1..snap.n_s :
              IF snap.has_t
              THEN \A j \in 1..snap.n_t :
                      Val(r.val)[c][k][j][i] =
                          snap.U[(c - 1) * snap.n_xyz + k][snap.n_t * (i - 1) + j]
              ELSE Val(r.val)[c][k][i] = snap.U[(c - 1) * snap.n_xyz + k][i]

\* C15: in loop_u and loop_u_t no entry of X_v, U, U_no_noise or U_struct is
\* ever written by two different iterations, every entry has been written by
\* exactly one iteration when the loop returns, and the arrays returned are
\* those of the iterations run one after the other, whatever the interleaving.
C15_WritesDisjoint ==
    snap.status # "idle" =>
        \* the sets of iterations that wrote the entries of the four arrays
        LET Writers ==
                {snap.wX[r][d] : r \in 1..snap.n_st, d \in 1..snap.n_d}
                \cup {snap.wU[r][c] : r \in 1..snap.n_h, c \in 1..snap.n_st}
                \cup {snap.wN[r][c] : r \in 1..snap.n_h, c \in 1..snap.n_st}
                \cup {snap.wS[r][j][i] :
                         r \in 1..snap.n_h, j \in 1..snap.n_t, i \in 1..snap.n_s}
            seq == loop_return(loop_sequential(
                       create_snapshots(snap.n_v, snap.n_xyz, snap.n_t, snap.mu_lhs,
                                        snap.t_min, snap.t_max, snap.u_noise,
                                        snap.x_noise, snap.z), snap.n_s))
        IN  /\ \A w \in Writers : Cardinality(w) <= 1
            /\ snap.status \in {"done", "restructed"} =>
                  /\ \A w \in Writers : Cardinality(w) = 1
                  /\ snap.X_v = seq.X_v
                  /\ snap.U = seq.U
                  /\ snap.U_no_noise = seq.U_no_noise
                  /\ snap.U_struct = seq.U_struct

C15_Witness ==
    /\ snap.status \in {"done", "restructed"} /\ snap.inter /\ snap.n_s = 2 /\ snap.n_t = 2
    /\ RLt(RInt(0), snap.x_noise) /\ snap.u_noise > 0
    /\ snap.z[1] # snap.z[2]
    /\ snap.wU[1][4] = {2} /\ snap.wX[1][1] = {1}

\* C16: in loop_u and in loop_u_t, whenever x_noise > 0 the scale of the input
\* noise of a sample is x_noise times the standard deviation of its parameter
\* vector, and x_noise times the vector's first component when that standard
\* deviation is zero.
C16_NoiseScaleFallback ==
    (snap.status # "idle" /\ RLt(RInt(0), snap.x_noise)) =>
        \A i \in 1..snap.n_s :
            snap.pc[i] = "done" =>
                snap.scale[i] =
                    Some(RMul(snap.x_noise,
                              IF Std(snap.mu_lhs[i]) = RInt(0)
                              THEN snap.mu_lhs[i][1]
                              ELSE Std(snap.mu_lhs[i])))


(***************************************************************************)
(* Claims about the accumulation kernels                                   *)
(***************************************************************************)
\* the result of the loop run by one thread on the arrays passed in
RedInOrder ==
    IF red.n_t = 0
    THEN loop_vdot(red.n_s, red.U_tot, red.U_tot_sq, red.V, red.v_pred_hifi)
    ELSE loop_vdot_t(red.n_s, red.n_t, red.U_tot, red.U_tot_sq, red.V, red.v_pred_hifi)

\* C14 as claimed: under every schedule of the parallel iterations the sums
\* returned by loop_vdot / loop_vdot_t are the input plus the sum over all
\* samples of V.v_i and of its elementwise square, the same whatever the
\* order in which the contributions are added.
C14_OrderIndependent ==
    red.status = "done" =>
        /\ Val(red.out).tot = RedInOrder[1]
        /\ Val(red.out).sq = RedInOrder[2]

\* C14 as it holds: under every schedule each sample is added exactly once;
\* the sums returned are exactly the input plus the sum of V.v_i and of its
\* squares whenever these sums are computed without rounding, and they are
\* those of the loop run in order when one thread runs all iterations on
\* zero accumulators.
C14_EachSampleOnce ==
    red.status = "done" =>
        LET cols == Max(red.n_t, 1)
            \* every coefficient is the integer 3: nothing is rounded
            Exact == \A r \in DOMAIN red.v_pred_hifi :
                         \A l \in DOMAIN red.v_pred_hifi[r] :
                             red.v_pred_hifi[r][l] = <<0, 3, 0>>
            \* the integer n > 0 as a float
            FInt(n) == Round(1, n, 0, FALSE)
            \* the entry of row r of V.v_i for the coefficients 3
            Field(r) == SumTo([l \in 1..NCols(red.V) |-> red.V[r][l] * 3],
                              NCols(red.V))
        IN  /\ \A i \in 1..red.n_s : red.cnt[i] = 1
            /\ Exact =>
                  \A r \in 1..NRows(red.V), c \in 1..cols :
                      /\ Val(red.out).tot[r][c] =
                            FAdd(red.U_tot[r][c],
                                 IF Field(r) = 0 THEN FZero
                                 ELSE FInt(red.n_s * Field(r)))
                      /\ Val(red.out).sq[r][c] =
                            FAdd(red.U_tot_sq[r][c],
                                 IF Field(r) = 0 THEN FZero
                                 ELSE FInt(red.n_s * Field(r) * Field(r)))
            /\ (red.U_tot = Zeros(NRows(red.V), cols)
                  /\ \E th \in 1..NumThreads :
                        red.chunk[th] - red.chunk[th - 1] = red.n_s) =>
                  /\ Val(red.out).tot = RedInOrder[1]
                  /\ Val(red.out).sq = RedInOrder[2]

C14_Witness ==
    /\ red.status = "done" /\ red.n_s = 3
    /\ red.v_pred_hifi = [r \in 1..6 |-> <<<<0, 3, 0>>>>]
    /\ red.chunk[1] = 1
    /\ red.U_tot # Zeros(NRows(red.V), Max(red.n_t, 1))
    /\ red.n_t = 2
    /\ Val(red.out).sq[1][2] = <<0, 15, 1>>

(***************************************************************************)
(* Claims about the orchestrator's life cycle and its checkpoints          *)
(***************************************************************************)
\* the regressor held is a fitted one
RegTrained(o) == o.regnn # None /\ Val(o.regnn).trained

\* the trained state: a fitted regressor and a basis
Trained(o) == RegTrained(o) /\ o.V # None

\* C3: while the orchestrator is not in the trained state, a call of predict
\* fails and leaves the orchestrator and the checkpoints unchanged; it never
\* returns a field after generate_dataset and initNN only.
C3_PredictNeedsTrained ==
    [][(ret'.op = "predict" /\ ~Trained(obj)) =>
          (ret'.status # "ok" /\ ret'.val = None /\ obj' = obj /\ disk' = disk)]_vars

\* a call of train on an orchestrator without basis fails before fit runs and
\* changes neither the orchestrator nor the checkpoints
TrainNeedsBasis ==
    (ret'.op = "train" /\ obj.V = None) =>
        /\ ret'.status # "ok"
        /\ "fit" \notin ret'.ran
        /\ obj' = obj
        /\ disk' = disk

LoadGives(o, d) ==
    LET l == load(d) IN
    /\ l.err = "ok"
    /\ Val(l.val).V = o.V
    /\ Val(l.val).n_L = o.n_L
    /\ Val(l.val).pod_sig = o.pod_sig
    /\ Val(l.val).regnn = o.regnn
    /\ RegTrained(Val(l.val))

\* C5: after a successful train, load on the result directory
\* gives the fitted regressor and the V, n_L and pod_sig in memory at the end
\* of train.
C5_TrainPersistsBoth ==
    (ret.op = "train" /\ ret.status = "ok") => LoadGives(obj, disk)

\* C6: load fails with FileNotFoundError and returns no orchestrator when one
\* of the three checkpoints is missing; otherwise it returns an orchestrator
\* with n_v, x_mesh, n_t, n_L, n_d, V, pod_sig and regnn all set from them.
C6_LoadAllOrNothing ==
    ret.op = "load" =>
        IF disk.setup = None \/ disk.train = None \/ disk.model = None
        THEN ret.status = "FileNotFoundError" /\ ret.val = None
        ELSE /\ ret.status = "ok"
             /\ ret.val # None
             /\ obj = Val(ret.val)
             /\ <<obj.n_v, obj.x_mesh, obj.n_t>> = Val(disk.setup)
             /\ <<obj.n_L, obj.n_d, obj.V, obj.pod_sig>> = SubSeq(Val(disk.train), 1, 4)
             /\ obj.regnn = disk.model
             /\ None \notin {obj.n_L, obj.n_d, obj.V, obj.pod_sig, obj.regnn}

\* load returned an orchestrator
C6_Witness ==
    /\ ret.op = "load"
    /\ ret.status = "ok"
    /\ Trained(obj)

\* the training-data checkpoint gives back what the last call returned: a
\* cached reload by load_train_data, generate_dataset(use_cache=True) or
\* convert_dataset(use_cache=True) on a new orchestrator runs no sampling,
\* oracle or basis extraction, returns the tuple ret.val and restores n_L,
\* n_d, V and pod_sig
CacheGivesBack ==
    LET o0 == NewObj(obj.n_v, obj.x_mesh, obj.n_t)
        l == load_train_data(o0, disk)
        g == generate_dataset(o0, disk, TRUE, <<0>>,
                              CHOOSE x \in GenDraws(o0) : TRUE,
                              CHOOSE x \in Bases : TRUE, TRUE)
        c == convert_dataset(o0, disk, TRUE, FALSE, CHOOSE x \in ConvFlats : TRUE,
                             CHOOSE x \in ConvInputs(o0) : TRUE,
                             CHOOSE x \in Bases : TRUE, 1)
    IN  /\ l.err = "ok" /\ g.err = "ok" /\ c.err = "ok"
        /\ l.val = ret.val /\ g.val = ret.val /\ c.val = ret.val
        /\ g.ran = {} /\ c.ran = {}
        /\ \A r \in {l, g, c} :
              <<r.obj.n_L, r.obj.n_d, r.obj.V, r.obj.pod_sig>>
                 = <<obj.n_L, obj.n_d, obj.V, obj.pod_sig>>

\* C7, as stated: every successful generate_dataset or convert_dataset call
\* leaves a training-data checkpoint that gives back what the call returned.
C7_EveryCallCached ==
    (ret.op \in {"generate_dataset", "convert_dataset"} /\ ret.status = "ok")
        => CacheGivesBack

\* C7, amended: every successful generate_dataset call, and every successful
\* convert_dataset call made with save_cache=True or served from the cache,
\* leaves a training-data checkpoint that gives back what the call returned.
C7_SavingCallCached ==
    /\ (ret.op = "generate_dataset" /\ ret.status = "ok") => CacheGivesBack
    /\ (ret.op = "convert_dataset" /\ ret.status = "ok"
          /\ (ret.args.save_cache \/ ret.ran = {})) => CacheGivesBack

\* convert_dataset extracted a basis and saved it
C7_Witness ==
    /\ ret.op = "convert_dataset"
    /\ ret.status = "ok"
    /\ ret.args.save_cache
    /\ "pod" \in ret.ran
    /\ CacheGivesBack

(***************************************************************************)
(* Claims about the uncertainty predictions                                *)
(***************************************************************************)
\* a call of op has returned a mean and a standard deviation
Returned(op) == vd.status = "done" /\ vd.op = op /\ vd.err = "ok"

\* C8: when predict_var returns, predict_sample has been called exactly as
\* many times as the caller wanted draws, and the mean and the variance were
\* taken over that number of samples.
C8_DrawsAsAsked ==
    Returned("predict_var") => (vd.calls = vd.asked /\ vd.n = vd.asked)

\* the residual signature of row r, as the float added to the deviation
PodSigOf(r) == IF obj.pod_sig = None THEN FZero ELSE FromRat(Val(obj.pod_sig)[r])

\* C9: with a regressor that returns the same coefficients on every draw,
\* the standard deviation predict_var returns is, at every row and input,
\* the residual signature of the row (zero when none is stored), and the
\* mean is the one reconstructed field V.v^T.
C9_DeterministicRegressor ==
    (Returned("predict_var") /\ vd.st.kind = "const") =>
        LET U == predict_sample(obj, Draw(vd.st, 0, vd.N)) IN
        \A r \in 1..obj.n_h, c \in 1..vd.N :
            /\ FEq(vd.std[r][c], PodSigOf(r))
            /\ FEq(vd.mean[r][c], U[r][c])

\* x is a number and is not negative
FNotNegative(x) == x[1] # 1 /\ x[2] >= 0

\* C10: with one sample, the standard deviation do_vdot derives (and the one
\* predict_var derives before it adds the residual signature) is zero at
\* every entry; with one sample or more, no entry of the deviations returned
\* is negative or NaN.
C10_SingleSampleStd ==
    (vd.status = "done" /\ vd.err = "ok" /\ vd.n >= 1) =>
        \A r \in DOMAIN vd.std : \A c \in DOMAIN vd.std[r] :
            /\ vd.n = 1 => vd.sig[r][c] = FZero
            /\ FNotNegative(vd.sig[r][c])
            /\ FNotNegative(vd.std[r][c])

\* do_vdot returned the deviation of one sample that is not the zero field
C10_Witness ==
    /\ Returned("do_vdot")
    /\ vd.n = 1
    /\ \E r \in DOMAIN vd.mean : \E c \in DOMAIN vd.mean[r] : vd.mean[r][c] # FZero
    /\ \A r \in DOMAIN vd.std : \A c \in DOMAIN vd.std[r] : vd.std[r][c] = FZero

====
